---- MODULE Spec2Model ----
(***************************************************************************)
(* Pesa-Bridge: the card authorization / reconciliation protocol of        *)
(* src/src/services/authorizationService.js over the ledger entity of      *)
(* src/src/models/Transaction.js and the spend counters of                 *)
(* src/src/models/VirtualCard.js and src/src/models/User.js.               *)
(*                                                                         *)
(* The store is modelled as the persisted documents (entries, card, user). *)
(* Every handler invocation is a process that holds its own in-memory      *)
(* copies of the documents it loaded; one action is one stretch of handler *)
(* code between two awaits, so that a load (findOne / findByPk) and the    *)
(* later save() of the in-memory copy are separate atomic steps.  save()   *)
(* writes the paths the handler modified, with the in-memory values.       *)
(* A lookup by a field is equality on the stored top-level field.          *)
(* One card and one cardholder; requests that arrive from outside are in   *)
(* the settlement currency (the currency === 'KES' branch of               *)
(* authorizeTransaction); SpecConvert starts requests in other currencies. *)
(* One clock tick is the 30 second authorization window.  Of the           *)
(* timestamps the creation time and the expiry deadline are compared with  *)
(* the clock; the others are modelled by whether they are set (Stamped) or *)
(* not (NoTime).                                                           *)
(* In Spec the store answers every call of handleSTKCallback; SpecFault    *)
(* lets these calls reject and the card be deleted.  SpecHook adds the     *)
(* webhook receiver of the provider's callbacks.                           *)
(***************************************************************************)
EXTENDS Integers, Sequences, FiniteSets, TLC

\* ---------------------------------------------------------------- bounds
MaxEntries == 1
MaxProcs == 2
MaxCalls == 2
MaxTime == 2
MaxDay == 1
MaxAmount == 2
SingleLimit == 1
UserDailyLimit == 3
CardDailyLimit == 3
CardMonthlyLimit == 4
MaxHistory == 3

\* ------------------------------------------------------ program constants
TimeoutTicks == 1
SuccessCode == 0
PendingSentinel == 1032

\* the reference rates of convertCurrency: KES for one unit
RateUSD == 150
RateEUR == 165
RateGBP == 190
\* checkFraudPatterns: the findAll limit, the 30 seconds of a rapid
\* transaction in ticks, the amount factor, the number of failed attempts
RecentLimit == 10
RapidTicks == 1
UnusualFactor == 5
FailedAttempts == 3

NoId == 0
NoTime == -1
Stamped == 0
NoCode == -1
Deleted == -2
NoEntry == 0

Procs == 1..MaxProcs
Amounts == 1..MaxAmount
ResultCodes == {SuccessCode, 1, PendingSentinel}
\* the result codes mapMpesaResultToCardResponse has a case for, and codes
\* it has none for (NoCode: a callback without result code)
KnownCodes == {0, 1, 2, 1032, 1037, 2001, 2002}
UnknownCodes == {NoCode, 3, 17, 1031, 1033, 2003, 9999}
Descriptions == {"", "DS timeout"}
Currencies == {"KES", "USD", "EUR", "GBP", "XYZ"}
\* Number NaN: amounts and counters are never negative, NaN and every sum
\* with it is a negative number, so that each comparison `x > limit` the
\* code makes on it is false, as it is on NaN
NaN == -1000000
Receipts == {"RCPT"}

\* status: enum of the Transaction schema
Statuses ==
  {"pending_authorization", "stk_push_sent", "awaiting_user_response",
   "approved", "declined", "failed", "expired", "cancelled"}
Terminal == {"approved", "declined", "failed", "expired", "cancelled"}
NonTerminal == Statuses \ Terminal
\* a status query that also takes declined entries for pending
PollPending_AndDeclined ==
  {"stk_push_sent", "awaiting_user_response", "declined"}

\* the statuses queryTransactionStatus and findPendingTransactions act on
PollPending == {"stk_push_sent", "awaiting_user_response"}

VARIABLES
  now,      \* wall clock, in ticks
  today,    \* calendar day
  entries,  \* the persisted Transaction documents, in creation order
  card,     \* the persisted VirtualCard document
  user,     \* the persisted User document
  proc,     \* handler invocations in flight
  calls,    \* number of callbacks, status queries and authorize requests
            \* beyond the ledger bound that were started
  hist,     \* per entry: history of what was applied to it
  ret       \* the invocation that returned in the last step, if one did

vars == <<now, today, entries, card, user, proc, calls, hist, ret>>

\* ------------------------------------------------------------ documents
EmptyMetadata ==
  [mpesa_checkout_request_id |-> NoId,
   mpesa_result_code |-> NoCode,
   mpesa_transaction_id |-> "none",
   authorization_code |-> "none",
   decline_code |-> "none",
   decline_reason |-> "none",
   error |-> "none",
   fraud_indicators |-> {}]

NoDoc ==
  [amount_kes |-> 0, status |-> "none", mpesa_checkout_request_id |-> NoId,
   metadata |-> EmptyMetadata, created_at |-> NoTime,
   stk_push_sent_at |-> NoTime, user_response_at |-> NoTime,
   completed_at |-> NoTime, timeout_at |-> NoTime]

NoCard == [total_spent_today |-> 0, total_spent_month |-> 0, last_used |-> NoTime]
\* what VirtualCard.findByPk yields once the card was deleted
\* (DELETE /api/cards/:id): null
DeletedCard ==
  [total_spent_today |-> 0, total_spent_month |-> 0, last_used |-> Deleted]
NoUser == [total_daily_spent |-> 0, reset_daily_spent_at |-> 0]

NoResult ==
  [kind |-> "none", status |-> "none", code |-> "none", ref |-> NoEntry,
   reason |-> "none"]

NoHist ==
  [applied |-> 0, settled |-> 0, approvals |-> 0, overlapped |-> FALSE]

\* pc: where the invocation is suspended; op: the handler that was invoked;
\* id, desc: the checkoutRequestID and resultDescription a callback carried;
\* amount, currency: the charge of an authorize request; amountKES: the
\* amount after the conversion; indicators: what checkFraudPatterns returned;
\* ref: the entry the orchestrator created / the status query looked up;
\* e: the entry handleSTKCallback resolved; txn, cardMem, userMem: the
\* in-memory documents; pollStatus: status of the status query's own document.
\* loadedStatus, loadedPast, gatewayCalled, pre, solo record what the
\* invocation observed, for the properties below.
IdleProc ==
  [pc |-> "idle", op |-> "none", ref |-> NoEntry, e |-> NoEntry, id |-> NoId,
   desc |-> "", amount |-> 0, currency |-> "KES", amountKES |-> 0,
   indicators |-> {}, code |-> NoCode, receipt |-> "none",
   txn |-> NoDoc, cardMem |-> NoCard, userMem |-> NoUser,
   pollStatus |-> "none", loadedStatus |-> "none", loadedPast |-> FALSE,
   gatewayCalled |-> FALSE,
   pre |-> [today |-> 0, month |-> 0, daily |-> 0],
   solo |-> TRUE, result |-> NoResult]

\* ------------------------------------------------------- pure functions

\* a mapping that approves every result code it has no case for
MapMpesaResultToCardResponse_UnknownApproved(resultCode, resultDescription) ==
  CASE resultCode = 1 ->
         [approved |-> FALSE, authorizationCode |-> "none",
          declineCode |-> "51", declineReason |-> "Insufficient funds"]
    [] resultCode = 2 ->
         [approved |-> FALSE, authorizationCode |-> "none",
          declineCode |-> "05", declineReason |-> "Declined"]
    [] resultCode = 1032 ->
         [approved |-> FALSE, authorizationCode |-> "none",
          declineCode |-> "13", declineReason |-> "Invalid amount"]
    [] resultCode = 1037 ->
         [approved |-> FALSE, authorizationCode |-> "none",
          declineCode |-> "12", declineReason |-> "Invalid transaction"]
    [] resultCode = 2001 ->
         [approved |-> FALSE, authorizationCode |-> "none",
          declineCode |-> "14", declineReason |-> "Invalid card number"]
    [] resultCode = 2002 ->
         [approved |-> FALSE, authorizationCode |-> "none",
          declineCode |-> "15", declineReason |-> "Invalid card"]
    [] OTHER ->
         [approved |-> TRUE, authorizationCode |-> "AUTH",
          declineCode |-> "none", declineReason |-> "none"]

\* mpesaService.mapMpesaResultToCardResponse
MapMpesaResultToCardResponse(resultCode, resultDescription) ==
  CASE resultCode = 0 ->
         [approved |-> TRUE, authorizationCode |-> "AUTH",
          declineCode |-> "none", declineReason |-> "none"]
    [] resultCode = 1 ->
         [approved |-> FALSE, authorizationCode |-> "none",
          declineCode |-> "51", declineReason |-> "Insufficient funds"]
    [] resultCode = 2 ->
         [approved |-> FALSE, authorizationCode |-> "none",
          declineCode |-> "05", declineReason |-> "Declined"]
    [] resultCode = 1032 ->
         [approved |-> FALSE, authorizationCode |-> "none",
          declineCode |-> "13", declineReason |-> "Invalid amount"]
    [] resultCode = 1037 ->
         [approved |-> FALSE, authorizationCode |-> "none",
          declineCode |-> "12", declineReason |-> "Invalid transaction"]
    [] resultCode = 2001 ->
         [approved |-> FALSE, authorizationCode |-> "none",
          declineCode |-> "14", declineReason |-> "Invalid card number"]
    [] resultCode = 2002 ->
         [approved |-> FALSE, authorizationCode |-> "none",
          declineCode |-> "15", declineReason |-> "Invalid card"]
    [] OTHER ->
         [approved |-> FALSE, authorizationCode |-> "none",
          declineCode |-> "96",
          declineReason |-> IF resultDescription = "" THEN "System malfunction"
                            ELSE resultDescription]

\* isExpired with the deadline taken one window too late
IsExpired_Late(doc, t) ==
  IF doc.timeout_at = NoTime THEN FALSE ELSE t > doc.timeout_at + TimeoutTicks

\* Transaction.isExpired
IsExpired(doc, t) ==
  IF doc.timeout_at = NoTime THEN FALSE ELSE t > doc.timeout_at

\* Transaction.setTimeout(0.5): the in-memory part
SetTimeout(doc, t) == [doc EXCEPT !.timeout_at = t + TimeoutTicks]

\* { ...this.metadata, ...metadata }
MergeMetadata(old, new) ==
  [k \in DOMAIN old |-> IF k \in DOMAIN new THEN new[k] ELSE old[k]]

\* updateStatus that drops the supplied metadata instead of merging it
UpdateStatus_NoMerge(doc, status, metadata) ==
  [doc EXCEPT
     !.status = status,
     !.stk_push_sent_at = IF status = "stk_push_sent" THEN Stamped ELSE @,
     !.user_response_at = IF status = "awaiting_user_response" THEN Stamped ELSE @,
     !.completed_at = IF status \in {"approved", "declined", "failed"} THEN Stamped ELSE @]

\* Transaction.updateStatus: the in-memory part (status, metadata, stamp)
UpdateStatus(doc, status, metadata) ==
  [doc EXCEPT
     !.status = status,
     !.metadata = MergeMetadata(doc.metadata, metadata),
     !.stk_push_sent_at = IF status = "stk_push_sent" THEN Stamped ELSE @,
     !.user_response_at = IF status = "awaiting_user_response" THEN Stamped ELSE @,
     !.completed_at = IF status \in {"approved", "declined", "failed"} THEN Stamped ELSE @]

\* the save() that ends updateStatus: writes the modified paths of doc
SaveTransaction(stored, doc) ==
  [stored EXCEPT
     !.status = doc.status,
     !.metadata = doc.metadata,
     !.stk_push_sent_at = IF doc.status = "stk_push_sent" THEN doc.stk_push_sent_at ELSE @,
     !.user_response_at = IF doc.status = "awaiting_user_response" THEN doc.user_response_at ELSE @,
     !.completed_at = IF doc.status \in {"approved", "declined", "failed"} THEN doc.completed_at ELSE @]

\* updateSpending that adds the amount to the daily counter twice
UpdateSpending_Twice(c, amount) ==
  [c EXCEPT !.total_spent_today = @ + amount + amount,
            !.total_spent_month = @ + amount,
            !.last_used = Stamped]

\* VirtualCard.updateSpending: the in-memory part
UpdateSpending(c, amount) ==
  [c EXCEPT !.total_spent_today = @ + amount,
            !.total_spent_month = @ + amount,
            !.last_used = Stamped]

\* canMakeTransaction that books the amount on the daily counter while
\* checking it
UserCanMakeTransaction_Booking(u, amount, day) ==
  LET reset == day # u.reset_daily_spent_at
      u1 == IF reset THEN [total_daily_spent |-> 0, reset_daily_spent_at |-> day]
            ELSE u
  IN [allowed |-> ~(amount > SingleLimit)
                  /\ ~((u1.total_daily_spent + amount) > UserDailyLimit),
      reset |-> reset,
      user |-> [u1 EXCEPT !.total_daily_spent = @ + amount]]

\* User.canMakeTransaction: lazy daily reset, then the two limits;
\* returns the decision and the (possibly reset) document
UserCanMakeTransaction(u, amount, day) ==
  LET reset == day # u.reset_daily_spent_at
      u1 == IF reset THEN [total_daily_spent |-> 0, reset_daily_spent_at |-> day]
            ELSE u
  IN [allowed |-> ~(amount > SingleLimit)
                  /\ ~((u1.total_daily_spent + amount) > UserDailyLimit),
      reset |-> reset,
      user |-> u1]

\* canMakeTransaction that already rejects a total equal to the limit
CardCanMakeTransaction_AtLimit(c, amount) ==
  ~((c.total_spent_today + amount) >= CardDailyLimit)
  /\ ~((c.total_spent_month + amount) >= CardMonthlyLimit)

\* VirtualCard.canMakeTransaction (the card validateCard returned is active
\* and not past its expiry month)
CardCanMakeTransaction(c, amount) ==
  ~((c.total_spent_today + amount) > CardDailyLimit)
  /\ ~((c.total_spent_month + amount) > CardMonthlyLimit)

\* Transaction.create in authorizeTransaction
NewEntry(amount) ==
  [NoDoc EXCEPT !.amount_kes = amount, !.status = "pending_authorization"]

\* a lookup that falls back to the newest entry when no entry holds the id
FindByCheckoutRequestId_Newest(id) ==
  IF {i \in 1..Len(entries) : entries[i].mpesa_checkout_request_id = id} = {}
  THEN {i \in 1..Len(entries) : i = Len(entries)}
  ELSE {i \in 1..Len(entries) : entries[i].mpesa_checkout_request_id = id}

\* Transaction.findOne({ where: { mpesa_checkout_request_id } })
FindByCheckoutRequestId(id) ==
  {i \in 1..Len(entries) : entries[i].mpesa_checkout_request_id = id}

\* Transaction.findPendingTransactions: the entries in stk_push_sent or
\* awaiting_user_response whose timeout_at lies before the clock
FindPendingTransactions ==
  {i \in 1..Len(entries) : /\ entries[i].status \in PollPending
                           /\ entries[i].timeout_at # NoTime
                           /\ entries[i].timeout_at < now}

\* updateStatus called without metadata (metadata = {})
NoMetadata == [k \in {} |-> "none"]

\* rates[currency] of convertCurrency; undefined * amount is NaN
Rates == [USD |-> RateUSD, EUR |-> RateEUR, GBP |-> RateGBP]

\* convertCurrency(amount, currency, 'KES'), the one call the program makes:
\* nothing throws, so the catch block that returns the amount never runs
ConvertCurrency(amount, fromCurrency) ==
  IF fromCurrency = "KES" THEN amount
  ELSE IF fromCurrency \in DOMAIN Rates THEN amount * Rates[fromCurrency]
  ELSE NaN

\* the sum of the amounts of the documents of a sequence
RECURSIVE SumAmounts(_)
SumAmounts(docs) ==
  IF docs = <<>> THEN 0
  ELSE docs[1].amount_kes + SumAmounts(Tail(docs))

\* findAll({ where: { card_id }, order: created_at DESC, limit: 10 }): the
\* last entries of the ledger (all entries are on the one card)
RecentTransactions ==
  IF Len(entries) <= RecentLimit THEN entries
  ELSE SubSeq(entries, Len(entries) - RecentLimit + 1, Len(entries))

\* cardService.checkFraudPatterns on the recent entries: the newest one was
\* created less than one window ago; the amount is above five times the
\* average (of no entries the average is NaN and the test is false); three
\* or more of them are declined or failed.  The entries are charges in the
\* settlement currency, amount = amount_kes.
CheckFraudPatterns(recent, amount, t) ==
  LET n == Len(recent)
      rapid == n > 0 /\ t - recent[n].created_at < RapidTicks
      unusual == n > 0 /\ amount >= 0 /\ SumAmounts(recent) >= 0
                 /\ amount * n > SumAmounts(recent) * UnusualFactor
      failed == Cardinality({i \in 1..n :
                  recent[i].status \in {"declined", "failed"}}) >= FailedAttempts
  IN (IF rapid THEN {"Rapid transaction detected"} ELSE {})
     \cup (IF unusual THEN {"Unusual transaction amount"} ELSE {})
     \cup (IF failed THEN {"Multiple failed attempts"} ELSE {})

\* -------------------------------------------------------- initial state
Init ==
  /\ now = 0
  /\ today = 0
  /\ entries = <<>>
  /\ card = NoCard
  /\ user = NoUser
  /\ proc = [p \in Procs |-> IdleProc]
  /\ calls = 0
  /\ hist = <<>>
  /\ ret = IdleProc

\* ------------------------------------------------------------- helpers
Running(p) == proc[p].pc # "idle"

\* authorizeTransaction invocations that may still create an entry
Creating == {p \in Procs : proc[p].pc \in {"a_user", "a_create", "a_insert"}}

\* handler invocations are interchangeable: a new one takes the first free slot
CanStart(p) == proc[p].pc = "idle" /\ \A q \in 1..(p - 1) : proc[q].pc # "idle"

\* an invocation ran alone if no other handler is in flight when it starts
\* and none starts before it returns
Alone(p) == \A r \in Procs \ {p} : ~Running(r)

\* the invocation rec takes slot p
Begin(p, rec) ==
  [q \in Procs |->
     IF q = p THEN [rec EXCEPT !.solo = Alone(p)]
     ELSE IF Running(q) THEN [proc[q] EXCEPT !.solo = FALSE]
     ELSE proc[q]]

\* the invocation in slot p returns `result`: ret shows it for one state
Returns(p, rec, result) ==
  /\ proc' = [proc EXCEPT ![p] = IdleProc]
  /\ ret' = [rec EXCEPT !.pc = "done", !.result = result,
                        !.txn = NoDoc, !.cardMem = NoCard, !.userMem = NoUser]

\* an invocation that returns in the step that started it
ReturnsAtOnce(p, rec, result) ==
  /\ proc' = [q \in Procs |->
                IF Running(q) /\ q # p THEN [proc[q] EXCEPT !.solo = FALSE]
                ELSE proc[q]]
  /\ ret' = [rec EXCEPT !.pc = "done", !.result = result, !.solo = Alone(p)]

Continues == ret' = IdleProc

\* a decline that always carries a newly generated reference
Decline_FreshReference(code, ref) ==
  [kind |-> "decline", status |-> "none", code |-> code, ref |-> NoEntry,
   reason |-> CASE code = "14" -> "Invalid card"
                [] code = "15" -> "Cardholder account inactive"
                [] code = "51" -> "Limit exceeded"
                [] OTHER -> "Payment service unavailable"]

\* the decline outcomes of authorizeTransaction before its catch block
Decline(code, ref) ==
  [kind |-> "decline", status |-> "none", code |-> code, ref |-> ref,
   reason |-> CASE code = "14" -> "Invalid card"
                [] code = "15" -> "Cardholder account inactive"
                [] code = "51" -> "Limit exceeded"
                [] OTHER -> "Payment service unavailable"]

\* a catch block that passes the fault on under a code of its own
SystemError_OtherCode ==
  [kind |-> "decline", status |-> "none", code |-> "99", ref |-> NoEntry,
   reason |-> "System error"]

\* the outcome of the catch block of authorizeTransaction: "96" with a
\* newly generated reference, which names no entry
SystemError ==
  [kind |-> "decline", status |-> "none", code |-> "96", ref |-> NoEntry,
   reason |-> "System error"]

NotFound ==
  [kind |-> "not_found", status |-> "none", code |-> "none", ref |-> NoEntry,
   reason |-> "none"]

\* { success: false, error } of handleSTKCallback for the entry it resolved
Failure(ref) ==
  [kind |-> "failure", status |-> "none", code |-> "none", ref |-> ref,
   reason |-> "none"]

StatusOutcome(status, ref) ==
  [kind |-> "status", status |-> status, code |-> "none", ref |-> ref,
   reason |-> "none"]

\* invocations of handleSTKCallback that resolved entry i and have not returned
Reconciling(i) ==
  {q \in Procs : proc[q].e = i
                 /\ proc[q].pc \in {"h_card", "h_user", "h_save_txn",
                                    "h_save_card", "h_save_user"}}

\* handleSTKCallback resolved entry i with result code `code`
NoteAttempt(i, code) ==
  [hist EXCEPT
     ![i].approvals = IF MapMpesaResultToCardResponse(code, "").approved
                      THEN @ + 1 ELSE @,
     ![i].overlapped = @ \/ Reconciling(i) # {}]

\* a callback or a status query saved a terminal status into entry i
NoteSettled(i, status) ==
  [hist EXCEPT ![i].settled = IF status \in Terminal THEN @ + 1 ELSE @]

\* handleSTKCallback after findOne found entry i: the loaded document
Resolved(rec, i, code, receipt) ==
  [rec EXCEPT !.pc = "h_card", !.e = i, !.code = code, !.receipt = receipt,
              !.txn = entries[i], !.loadedStatus = entries[i].status,
              !.pre = [today |-> card.total_spent_today,
                       month |-> card.total_spent_month,
                       daily |-> user.total_daily_spent]]

\* ------------------------------------------------- authorizeTransaction
\* validateCard: an invalid instrument is declined with "14" and a reference
\* that names no entry; otherwise the card document is loaded.  A request
\* that arrives when the ledger bound is taken counts as a call.
AuthorizeStart(p, amount, valid) ==
  /\ CanStart(p)
  /\ IF Len(entries) + Cardinality(Creating) < MaxEntries
     THEN calls' = calls
     ELSE calls < MaxCalls /\ calls' = calls + 1
  /\ LET rec == [IdleProc EXCEPT !.op = "authorize", !.amount = amount]
     IN IF valid
        THEN /\ proc' = Begin(p, [rec EXCEPT !.pc = "a_user", !.cardMem = card])
             /\ Continues
        ELSE ReturnsAtOnce(p, rec, Decline("14", NoEntry))
  /\ UNCHANGED <<now, today, entries, card, user, hist>>

\* User.findByPk, the active check, the conversion into the settlement
\* currency, then both limit checks on the converted amount; the request
\* goes on to the fraud check while the ledger bound allows an entry
AuthorizeCheck(p, active) ==
  /\ proc[p].pc = "a_user"
  /\ LET amountKES == IF proc[p].currency = "KES" THEN proc[p].amount
                      ELSE ConvertCurrency(proc[p].amount, proc[p].currency)
         rec == [proc[p] EXCEPT !.amountKES = IF active THEN amountKES ELSE @]
         chk == UserCanMakeTransaction(user, amountKES, today)
     IN IF ~active
        THEN /\ Returns(p, rec, Decline("15", NoEntry))
             /\ user' = user
        ELSE /\ user' = chk.user
             /\ IF chk.allowed /\ CardCanMakeTransaction(rec.cardMem, amountKES)
                THEN /\ Len(entries)
                          + Cardinality({q \in Procs :
                              proc[q].pc \in {"a_create", "a_insert"}})
                        < MaxEntries
                     /\ proc' = [proc EXCEPT ![p] =
                          [rec EXCEPT !.pc = "a_create", !.userMem = chk.user]]
                     /\ Continues
                ELSE Returns(p, rec, Decline("51", NoEntry))
  /\ UNCHANGED <<now, today, entries, card, calls, hist>>

\* a fraud check that declines a request on which it found an indicator
AuthorizeFraud_Blocking(p, ok) ==
  /\ proc[p].pc = "a_create"
  /\ LET found == IF ok
                  THEN CheckFraudPatterns(RecentTransactions,
                                          proc[p].amountKES, now)
                  ELSE {}
         rec == [proc[p] EXCEPT !.indicators = found]
     IN IF found = {}
        THEN /\ proc' = [proc EXCEPT ![p] = [rec EXCEPT !.pc = "a_insert"]]
             /\ Continues
        ELSE Returns(p, rec, Decline("59", NoEntry))
  /\ UNCHANGED <<now, today, entries, card, user, calls, hist>>

\* cardService.checkFraudPatterns answers: the indicators found on the
\* recent entries, or none when its query failed (its catch block); the
\* request goes on to create its entry either way
AuthorizeFraud(p, ok) ==
  /\ proc[p].pc = "a_create"
  /\ proc' = [proc EXCEPT ![p] =
       [@ EXCEPT !.pc = "a_insert",
                 !.indicators =
                   IF ok
                   THEN CheckFraudPatterns(RecentTransactions,
                                           proc[p].amountKES, now)
                   ELSE {}]]
  /\ Continues
  /\ UNCHANGED <<now, today, entries, card, user, calls, hist>>

\* Transaction.create: the entry is persisted in pending_authorization with
\* the fraud indicators in its metadata; setTimeout then sets the deadline
\* on the in-memory document
AuthorizeCreate(p) ==
  /\ proc[p].pc = "a_insert"
  /\ LET doc == [NewEntry(proc[p].amountKES) EXCEPT
                   !.created_at = now,
                   !.metadata.fraud_indicators = proc[p].indicators]
     IN /\ entries' = Append(entries, doc)
        /\ hist' = Append(hist, NoHist)
        /\ proc' = [proc EXCEPT ![p] =
             [@ EXCEPT !.pc = "a_deadline", !.ref = Len(entries) + 1,
                       !.txn = SetTimeout(doc, now)]]
  /\ Continues
  /\ UNCHANGED <<now, today, card, user, calls>>

\* await transaction.save(): the deadline is persisted
AuthorizeDeadline(p) ==
  /\ proc[p].pc = "a_deadline"
  /\ entries' = [entries EXCEPT ![proc[p].ref].timeout_at = proc[p].txn.timeout_at]
  /\ proc' = [proc EXCEPT ![p].pc = "a_push"]
  /\ Continues
  /\ UNCHANGED <<now, today, card, user, calls, hist>>

\* mpesaService.initiateSTKPush answers: the gateway accepted the push and
\* issued its checkout request id, or it did not; updateStatus changes the
\* in-memory entry to stk_push_sent or failed, the provider's ids going into
\* the metadata bag, and its save() is under way
AuthorizePush(p, accepted) ==
  /\ proc[p].pc = "a_push"
  /\ proc' = [proc EXCEPT ![p] =
       [@ EXCEPT
          !.pc = "a_sent",
          !.gatewayCalled = TRUE,
          !.txn = IF accepted
                  THEN UpdateStatus(@, "stk_push_sent",
                         [mpesa_checkout_request_id |-> proc[p].ref])
                  ELSE UpdateStatus(@, "failed", [error |-> "stk"])]]
  /\ Continues
  /\ UNCHANGED <<now, today, entries, card, user, calls, hist>>

\* the save() of updateStatus lands: the entry is stored as failed or
\* stk_push_sent; authorize returns "96" or the pending outcome
AuthorizeSent(p) ==
  /\ proc[p].pc = "a_sent"
  /\ LET rec == proc[p]
     IN /\ entries' = [entries EXCEPT ![rec.ref] = SaveTransaction(@, rec.txn)]
        /\ Returns(p, rec,
             IF rec.txn.status = "stk_push_sent"
             THEN [kind |-> "pending", status |-> "none", code |-> "none",
                   ref |-> rec.ref, reason |-> "none"]
             ELSE Decline("96", rec.ref))
  /\ UNCHANGED <<now, today, card, user, calls, hist>>

\* Transaction.create rejects, or a save() after it (the save of the
\* deadline, or the save inside updateStatus after the gateway answered):
\* the catch block returns the system error and the ledger stays as it was
AuthorizeFault(p) ==
  /\ proc[p].pc \in {"a_insert", "a_deadline", "a_sent"}
  /\ Returns(p, proc[p], SystemError)
  /\ UNCHANGED <<now, today, entries, card, user, calls, hist>>

\* the gateway accepted and updateStatus saved stk_push_sent, then
\* cache.set rejects: the catch block returns the system error
AuthorizeCacheFault(p) ==
  /\ proc[p].pc = "a_sent"
  /\ proc[p].txn.status = "stk_push_sent"
  /\ LET rec == proc[p]
     IN /\ entries' = [entries EXCEPT ![rec.ref] = SaveTransaction(@, rec.txn)]
        /\ Returns(p, rec, SystemError)
  /\ UNCHANGED <<now, today, card, user, calls, hist>>

\* POST /api/transactions: an entry is created in pending_authorization
\* for the (active) card and saved as it is
CreateTransaction(amount) ==
  /\ Len(entries) + Cardinality(Creating) < MaxEntries
  /\ entries' = Append(entries, [NewEntry(amount) EXCEPT !.created_at = now])
  /\ hist' = Append(hist, NoHist)
  /\ ret' = IdleProc
  /\ UNCHANGED <<now, today, card, user, proc, calls>>

\* ---------------------------------------------------- handleSTKCallback
\* a callback arrives: findOne by the checkout request id
CallbackStart(p, id, code, receipt) ==
  /\ CanStart(p)
  /\ calls < MaxCalls
  /\ calls' = calls + 1
  /\ LET rec == [IdleProc EXCEPT !.op = "callback", !.id = id, !.code = code,
                                 !.receipt = receipt]
     IN IF FindByCheckoutRequestId(id) = {}
        THEN /\ ReturnsAtOnce(p, rec, NotFound)
             /\ hist' = hist
        ELSE \E i \in FindByCheckoutRequestId(id) :
               /\ proc' = Begin(p, Resolved(rec, i, code, receipt))
               /\ hist' = NoteAttempt(i, code)
               /\ Continues
  /\ UNCHANGED <<now, today, entries, card, user>>

\* VirtualCard.findByPk(transaction.card_id)
HandleLoadCard(p) ==
  /\ proc[p].pc = "h_card"
  /\ proc' = [proc EXCEPT ![p] = [@ EXCEPT !.pc = "h_user", !.cardMem = card]]
  /\ Continues
  /\ UNCHANGED <<now, today, entries, card, user, calls, hist>>

\* what handleSTKCallback returns: to its caller, or back into
\* queryTransactionStatus, which ignores it and reports the status of its
\* own document
HandleReturn(rec) ==
  IF rec.op = "poll"
  THEN StatusOutcome(rec.pollStatus, rec.ref)
  ELSE [kind |-> "reconciled", status |-> rec.txn.status,
        code |-> rec.txn.metadata.decline_code, ref |-> rec.e,
        reason |-> rec.txn.metadata.decline_reason]

\* the failure outcome of handleSTKCallback, which queryTransactionStatus
\* ignores as well
HandleFailure(rec) ==
  IF rec.op = "poll"
  THEN StatusOutcome(rec.pollStatus, rec.ref)
  ELSE Failure(rec.e)

\* User.findByPk; without the card the handler returns its failure outcome;
\* otherwise the result is mapped and updateStatus changes the in-memory
\* entry to approved or declined
HandleLoadUser(p) ==
  /\ proc[p].pc = "h_user"
  /\ LET rec == proc[p]
         cardResponse == MapMpesaResultToCardResponse(rec.code, rec.desc)
     IN IF rec.cardMem = DeletedCard
        THEN Returns(p, rec, HandleFailure(rec))
        ELSE /\ proc' = [proc EXCEPT ![p] =
                  [rec EXCEPT
                     !.pc = "h_save_txn",
                     !.userMem = user,
                     !.txn = IF cardResponse.approved
                             THEN UpdateStatus(@, "approved",
                                    [mpesa_result_code |-> rec.code,
                                     mpesa_transaction_id |-> rec.receipt,
                                     authorization_code |-> cardResponse.authorizationCode])
                             ELSE UpdateStatus(@, "declined",
                                    [mpesa_result_code |-> rec.code,
                                     decline_reason |-> cardResponse.declineReason,
                                     decline_code |-> cardResponse.declineCode])]]
             /\ Continues
  /\ UNCHANGED <<now, today, entries, card, user, calls, hist>>

\* a handler that books the amount on the card after a decline as well
HandleSaveTxn_SpendsOnDecline(p) ==
  /\ proc[p].pc = "h_save_txn"
  /\ LET rec == proc[p]
     IN /\ entries' = [entries EXCEPT ![rec.e] = SaveTransaction(@, rec.txn)]
        /\ hist' = NoteSettled(rec.e, rec.txn.status)
        /\ proc' = [proc EXCEPT ![p] =
             [rec EXCEPT !.pc = "h_save_card",
                !.cardMem = UpdateSpending(@, rec.txn.amount_kes)]]
        /\ Continues
  /\ UNCHANGED <<now, today, card, user, calls>>

\* the save() of updateStatus lands; on approval card.updateSpending
\* changes the in-memory card, on decline the handler returns
HandleSaveTxn(p) ==
  /\ proc[p].pc = "h_save_txn"
  /\ LET rec == proc[p]
     IN /\ entries' = [entries EXCEPT ![rec.e] = SaveTransaction(@, rec.txn)]
        /\ hist' = NoteSettled(rec.e, rec.txn.status)
        /\ IF rec.txn.status = "approved"
           THEN /\ proc' = [proc EXCEPT ![p] =
                     [rec EXCEPT !.pc = "h_save_card",
                        !.cardMem = UpdateSpending(@, rec.txn.amount_kes)]]
                /\ Continues
           ELSE Returns(p, rec, HandleReturn(rec))
  /\ UNCHANGED <<now, today, card, user, calls>>

\* card.save() lands; user.total_daily_spent += amount_kes in memory
HandleSaveCard(p) ==
  /\ proc[p].pc = "h_save_card"
  /\ LET rec == proc[p]
     IN /\ card' = rec.cardMem
        /\ hist' = [hist EXCEPT ![rec.e].applied = @ + 1]
        /\ proc' = [proc EXCEPT ![p] =
             [rec EXCEPT !.pc = "h_save_user",
                         !.userMem.total_daily_spent = @ + rec.txn.amount_kes]]
  /\ Continues
  /\ UNCHANGED <<now, today, entries, user, calls>>

\* user.save() lands; handleSTKCallback returns
HandleSaveUser(p) ==
  /\ proc[p].pc = "h_save_user"
  /\ LET rec == proc[p]
     IN /\ user' = [user EXCEPT !.total_daily_spent = rec.userMem.total_daily_spent]
        /\ Returns(p, rec, HandleReturn(rec))
  /\ UNCHANGED <<now, today, entries, card, calls, hist>>

\* a call of the store inside handleSTKCallback rejects (one of the two
\* findByPk, the save() of updateStatus, card.save() or user.save()): the
\* catch block returns the failure outcome and what was saved before stays
HandleFault(p) ==
  /\ proc[p].pc \in {"h_card", "h_user", "h_save_txn", "h_save_card",
                     "h_save_user"}
  /\ Returns(p, proc[p], HandleFailure(proc[p]))
  /\ UNCHANGED <<now, today, entries, card, user, calls, hist>>

\* ------------------------------------------------- POST /webhooks/mpesa
\* Transaction.findOne({ mpesaRequestId: MerchantRequestID, status:
\* 'pending' }): the Transaction schema has no field mpesaRequestId, so an
\* entry holds none
FindPendingByRequest(mreq) ==
  {i \in 1..Len(entries) : NoId = mreq /\ entries[i].status = "pending"}

\* the webhook receiver: it answers 404 when its lookup finds no entry;
\* on an entry it found it sets the status itself, approved for result
\* code 0 and declined otherwise, and saves the entry (no entry has a type,
\* so the branch for 'card_funding' is not taken).  It does not call
\* handleSTKCallback.  The lookup and the save are shown as one step.
WebhookMpesa(p, mreq, id, code) ==
  /\ CanStart(p)
  /\ LET rec == [IdleProc EXCEPT !.op = "webhook", !.id = id, !.code = code]
     IN IF FindPendingByRequest(mreq) = {}
        THEN /\ ReturnsAtOnce(p, rec, NotFound)
             /\ entries' = entries
        ELSE \E i \in FindPendingByRequest(mreq) :
               /\ entries' = [entries EXCEPT ![i].status =
                                IF code = SuccessCode THEN "approved"
                                ELSE "declined"]
               /\ ReturnsAtOnce(p, [rec EXCEPT !.ref = i],
                                [kind |-> "webhook", status |-> entries'[i].status,
                                 code |-> "none", ref |-> i, reason |-> "none"])
  /\ UNCHANGED <<now, today, card, user, calls, hist>>

\* ------------------------------------------------ queryTransactionStatus
\* findOne by reference, then the branch on the loaded status and deadline
QueryStart(p, ref) ==
  /\ CanStart(p)
  /\ calls < MaxCalls
  /\ calls' = calls + 1
  /\ LET rec == [IdleProc EXCEPT !.op = "poll"]
     IN IF ref > Len(entries)
        THEN ReturnsAtOnce(p, rec, NotFound)
        ELSE LET doc == entries[ref]
                 r1 == [rec EXCEPT !.ref = ref, !.txn = doc,
                                   !.pollStatus = doc.status,
                                   !.loadedPast = doc.timeout_at # NoTime
                                                  /\ now > doc.timeout_at]
             IN IF doc.status \in PollPending
                THEN /\ proc' = Begin(p,
                          IF IsExpired(doc, now)
                          THEN [r1 EXCEPT !.pc = "q_expire",
                                  !.txn = UpdateStatus(doc, "expired", NoMetadata)]
                          ELSE [r1 EXCEPT !.pc = "q_query"])
                     /\ Continues
                ELSE ReturnsAtOnce(p, [r1 EXCEPT !.txn = NoDoc],
                                   StatusOutcome(doc.status, ref))
  /\ UNCHANGED <<now, today, entries, card, user, hist>>

\* the save() of updateStatus('expired') lands; the query reports expired
QueryExpire(p) ==
  /\ proc[p].pc = "q_expire"
  /\ LET rec == proc[p]
     IN /\ entries' = [entries EXCEPT ![rec.ref] = SaveTransaction(@, rec.txn)]
        /\ hist' = NoteSettled(rec.ref, rec.txn.status)
        /\ Returns(p, rec, StatusOutcome("expired", rec.ref))
  /\ UNCHANGED <<now, today, card, user, calls>>

\* queryTransactionStatus without the test for the pending sentinel: every
\* successful answer is handed to handleSTKCallback
QueryGateway_SentinelAsResult(p, ok, code) ==
  /\ proc[p].pc = "q_query"
  /\ LET rec == [proc[p] EXCEPT !.gatewayCalled = TRUE,
                                !.code = IF ok THEN code ELSE NoCode]
         id == rec.txn.mpesa_checkout_request_id
     IN IF ok
        THEN IF FindByCheckoutRequestId(id) = {}
             THEN /\ Returns(p, rec, StatusOutcome(rec.pollStatus, rec.ref))
                  /\ hist' = hist
             ELSE \E i \in FindByCheckoutRequestId(id) :
                    /\ proc' = [proc EXCEPT ![p] =
                         [rec EXCEPT !.pc = "h_card", !.e = i, !.txn = entries[i],
                                     !.loadedStatus = entries[i].status]]
                    /\ hist' = hist
                    /\ ret' = IdleProc
        ELSE /\ Returns(p, rec, StatusOutcome(rec.pollStatus, rec.ref))
             /\ hist' = hist
  /\ UNCHANGED <<now, today, entries, card, user, calls>>

\* mpesaService.querySTKPushStatus answers: a failure, the sentinel, or a
\* result that is handed to handleSTKCallback with the checkout request id
\* of the query's own document
QueryGateway(p, ok, code) ==
  /\ proc[p].pc = "q_query"
  /\ LET rec == [proc[p] EXCEPT !.gatewayCalled = TRUE,
                                !.code = IF ok THEN code ELSE NoCode]
         id == rec.txn.mpesa_checkout_request_id
     IN IF ok /\ code # PendingSentinel
        THEN IF FindByCheckoutRequestId(id) = {}
             THEN /\ Returns(p, rec, HandleReturn(rec))
                  /\ hist' = hist
             ELSE \E i \in FindByCheckoutRequestId(id) :
                    /\ proc' = [proc EXCEPT ![p] = Resolved(rec, i, code, "none")]
                    /\ hist' = NoteAttempt(i, code)
                    /\ Continues
        ELSE /\ Returns(p, rec, HandleReturn(rec))
             /\ hist' = hist
  /\ UNCHANGED <<now, today, entries, card, user, calls>>

\* ---------------------------------------------------------- environment
Tick ==
  /\ now < MaxTime
  /\ now' = now + 1
  /\ Continues
  /\ UNCHANGED <<today, entries, card, user, proc, calls, hist>>

NewDay ==
  /\ today < MaxDay
  /\ today' = today + 1
  /\ Continues
  /\ UNCHANGED <<now, entries, card, user, proc, calls, hist>>

Next ==
  \/ \E p \in Procs, amount \in Amounts, valid \in BOOLEAN :
       AuthorizeStart(p, amount, valid)
  \/ \E p \in Procs, active \in BOOLEAN : AuthorizeCheck(p, active)
  \/ \E p \in Procs, ok \in BOOLEAN : AuthorizeFraud(p, ok)
  \/ \E p \in Procs : AuthorizeCreate(p)
  \/ \E p \in Procs : AuthorizeDeadline(p)
  \/ \E p \in Procs, accepted \in BOOLEAN : AuthorizePush(p, accepted)
  \/ \E p \in Procs : AuthorizeSent(p)
  \/ \E p \in Procs : AuthorizeFault(p)
  \/ \E p \in Procs : AuthorizeCacheFault(p)
  \/ \E amount \in Amounts : CreateTransaction(amount)
  \/ \E p \in Procs, id \in 0..MaxEntries, code \in ResultCodes, receipt \in Receipts :
       CallbackStart(p, id, code, receipt)
  \/ \E p \in Procs : HandleLoadCard(p)
  \/ \E p \in Procs : HandleLoadUser(p)
  \/ \E p \in Procs : HandleSaveTxn(p)
  \/ \E p \in Procs : HandleSaveCard(p)
  \/ \E p \in Procs : HandleSaveUser(p)
  \/ \E p \in Procs, ref \in 1..MaxEntries : QueryStart(p, ref)
  \/ \E p \in Procs : QueryExpire(p)
  \/ \E p \in Procs, ok \in BOOLEAN, code \in ResultCodes : QueryGateway(p, ok, code)
  \/ Tick

\* behaviours within one calendar day
Spec == Init /\ [][Next]_vars

\* behaviours across a change of calendar day
NextDay == Next \/ NewDay

SpecDay == Init /\ [][NextDay]_vars

\* the continuation of the invocation in slot p: the event loop resumes a
\* handler once the store or the gateway has answered
Step(p) ==
  \/ \E active \in BOOLEAN : AuthorizeCheck(p, active)
  \/ \E ok \in BOOLEAN : AuthorizeFraud(p, ok)
  \/ AuthorizeCreate(p)
  \/ AuthorizeDeadline(p)
  \/ \E accepted \in BOOLEAN : AuthorizePush(p, accepted)
  \/ AuthorizeSent(p)
  \/ AuthorizeFault(p)
  \/ AuthorizeCacheFault(p)
  \/ HandleLoadCard(p)
  \/ HandleLoadUser(p)
  \/ HandleSaveTxn(p)
  \/ HandleSaveCard(p)
  \/ HandleSaveUser(p)
  \/ QueryExpire(p)
  \/ \E ok \in BOOLEAN, code \in ResultCodes : QueryGateway(p, ok, code)

\* every started handler runs to its return and the clock advances; the
\* arrival of requests, callbacks and status queries is up to the callers
SpecLive ==
  Spec /\ WF_vars(Tick) /\ \A p \in Procs : WF_vars(Step(p))

\* two charges of one settlement unit on the card, both accepted by the
\* gateway and waiting for their result: the state after two runs of
\* authorizeTransaction
PushSent(i) ==
  [NewEntry(1) EXCEPT
     !.status = "stk_push_sent",
     !.created_at = 0,
     !.metadata = MergeMetadata(EmptyMetadata, [mpesa_checkout_request_id |-> i]),
     !.stk_push_sent_at = Stamped,
     !.timeout_at = TimeoutTicks]

InitPair ==
  /\ now = 0
  /\ today = 0
  /\ entries = <<PushSent(1), PushSent(2)>>
  /\ card = NoCard
  /\ user = NoUser
  /\ proc = [p \in Procs |-> IdleProc]
  /\ calls = 0
  /\ hist = <<NoHist, NoHist>>
  /\ ret = IdleProc

NextPair ==
  \/ \E p \in Procs, id \in 0..2, code \in ResultCodes, receipt \in Receipts :
       CallbackStart(p, id, code, receipt)
  \/ \E p \in Procs : HandleLoadCard(p)
  \/ \E p \in Procs : HandleLoadUser(p)
  \/ \E p \in Procs : HandleSaveTxn(p)
  \/ \E p \in Procs : HandleSaveCard(p)
  \/ \E p \in Procs : HandleSaveUser(p)
  \/ \E p \in Procs, ref \in 1..2 : QueryStart(p, ref)
  \/ \E p \in Procs : QueryExpire(p)
  \/ \E p \in Procs, ok \in BOOLEAN, code \in ResultCodes : QueryGateway(p, ok, code)
  \/ Tick

SpecPair == InitPair /\ [][NextPair]_vars

\* the limit checks of authorizeTransaction on any counter values: a request
\* that has validated its card is about to load the cardholder
InitLimits ==
  /\ now = 0
  /\ today \in 0..MaxDay
  /\ entries = <<>>
  /\ card \in [total_spent_today : 0..(CardDailyLimit + 1),
               total_spent_month : 0..(CardMonthlyLimit + 1),
               last_used : {Stamped}]
  /\ card.total_spent_today <= card.total_spent_month
  /\ user \in [total_daily_spent : 0..(UserDailyLimit + 1),
               reset_daily_spent_at : 0..MaxDay]
  /\ \E amount \in Amounts :
       proc = [p \in Procs |->
                 IF p = 1
                 THEN [IdleProc EXCEPT !.pc = "a_user", !.op = "authorize",
                                       !.amount = amount, !.cardMem = card]
                 ELSE IdleProc]
  /\ calls = 0
  /\ hist = <<>>
  /\ ret = IdleProc

NextLimits == \E p \in Procs, active \in BOOLEAN : AuthorizeCheck(p, active)

SpecLimits == InitLimits /\ [][NextLimits]_vars

\* the entry of an accepted push after a callback with the success code
ApprovedEntry(i) ==
  UpdateStatus(PushSent(i), "approved",
    [mpesa_result_code |-> SuccessCode, mpesa_transaction_id |-> "RCPT",
     authorization_code |-> "AUTH"])

\* what the history of an entry shows after its one approval
OnceApproved ==
  [applied |-> 1, settled |-> 1, approvals |-> 1, overlapped |-> FALSE]

\* one charge of one unit was approved on day 0, a second push was accepted
\* and waits for its result; requests, callbacks and the change of day
InitReset ==
  /\ now = 0
  /\ today = 0
  /\ entries = <<ApprovedEntry(1), PushSent(2)>>
  /\ card = UpdateSpending(NoCard, 1)
  /\ user = [NoUser EXCEPT !.total_daily_spent = 1]
  /\ proc = [p \in Procs |-> IdleProc]
  /\ calls = 0
  /\ hist = <<OnceApproved, NoHist>>
  /\ ret = IdleProc

NextReset ==
  \/ \E p \in Procs, amount \in Amounts, valid \in BOOLEAN :
       AuthorizeStart(p, amount, valid)
  \/ \E p \in Procs, active \in BOOLEAN : AuthorizeCheck(p, active)
  \/ \E p \in Procs, id \in 0..2, code \in ResultCodes, receipt \in Receipts :
       CallbackStart(p, id, code, receipt)
  \/ \E p \in Procs : HandleLoadCard(p)
  \/ \E p \in Procs : HandleLoadUser(p)
  \/ \E p \in Procs : HandleSaveTxn(p)
  \/ \E p \in Procs : HandleSaveCard(p)
  \/ \E p \in Procs : HandleSaveUser(p)
  \/ NewDay

SpecReset == InitReset /\ [][NextReset]_vars

\* an earlier entry of the ledger, created at `created` by authorize and
\* since then failed at the push, waiting for its result, approved or declined
PastEntry(i, status, created) ==
  LET base == [NewEntry(1) EXCEPT !.created_at = created,
                                  !.timeout_at = created + TimeoutTicks]
      sent == UpdateStatus(base, "stk_push_sent",
                           [mpesa_checkout_request_id |-> i])
  IN CASE status = "failed" -> UpdateStatus(base, "failed", [error |-> "stk"])
       [] status = "stk_push_sent" -> sent
       [] status = "approved" ->
            UpdateStatus(sent, "approved",
              [mpesa_result_code |-> SuccessCode,
               mpesa_transaction_id |-> "RCPT", authorization_code |-> "AUTH"])
       [] OTHER ->
            UpdateStatus(sent, "declined",
              [mpesa_result_code |-> 1, decline_reason |-> "Insufficient funds",
               decline_code |-> "51"])

\* the fraud check of authorizeTransaction on every recent history of the
\* card: a request of one unit has passed the limit checks at tick 1, the
\* ledger holds up to MaxHistory earlier entries created at tick 0 or 1,
\* and the counters hold the approved ones
InitFraud ==
  /\ now = 1
  /\ today = 0
  /\ \E n \in 0..MaxHistory :
       \E st \in [1..n -> {"approved", "declined", "failed", "stk_push_sent"}],
          cr \in [1..n -> 0..1] :
         LET spent == Cardinality({i \in 1..n : st[i] = "approved"})
         IN /\ \A i \in 1..n : \A j \in i..n : cr[i] <= cr[j]
            /\ spent + 1 <= UserDailyLimit
            /\ spent + 1 <= CardDailyLimit
            /\ spent + 1 <= CardMonthlyLimit
            /\ entries = [i \in 1..n |-> PastEntry(i, st[i], cr[i])]
            /\ hist = [i \in 1..n |->
                         CASE st[i] = "approved" -> OnceApproved
                           [] st[i] = "declined" -> [NoHist EXCEPT !.settled = 1]
                           [] OTHER -> NoHist]
            /\ card = IF spent = 0 THEN NoCard
                      ELSE [total_spent_today |-> spent,
                            total_spent_month |-> spent, last_used |-> Stamped]
            /\ user = [NoUser EXCEPT !.total_daily_spent = spent]
  /\ proc = [p \in Procs |->
               IF p = 1
               THEN [IdleProc EXCEPT !.pc = "a_create", !.op = "authorize",
                                     !.amount = 1, !.amountKES = 1,
                                     !.cardMem = card, !.userMem = user]
               ELSE IdleProc]
  /\ calls = 0
  /\ ret = IdleProc

NextFraud ==
  \/ \E p \in Procs, ok \in BOOLEAN : AuthorizeFraud(p, ok)
  \/ \E p \in Procs : AuthorizeCreate(p)
  \/ \E p \in Procs : AuthorizeDeadline(p)
  \/ \E p \in Procs, accepted \in BOOLEAN : AuthorizePush(p, accepted)
  \/ \E p \in Procs : AuthorizeSent(p)
  \/ \E p \in Procs : AuthorizeFault(p)
  \/ \E p \in Procs : AuthorizeCacheFault(p)

SpecFraud == InitFraud /\ [][NextFraud]_vars

\* authorizeTransaction on a charge in any currency: a request that has
\* validated its card is about to load the cardholder; the ledger is empty
\* and the counters hold any value within the limits
InitConvert ==
  /\ now = 0
  /\ today = 0
  /\ entries = <<>>
  /\ \E spent \in 0..CardDailyLimit :
       card = IF spent = 0 THEN NoCard
              ELSE [total_spent_today |-> spent, total_spent_month |-> spent,
                    last_used |-> Stamped]
  /\ user \in [total_daily_spent : 0..UserDailyLimit,
               reset_daily_spent_at : {0}]
  /\ \E amount \in Amounts, currency \in Currencies :
       proc = [p \in Procs |->
                 IF p = 1
                 THEN [IdleProc EXCEPT !.pc = "a_user", !.op = "authorize",
                                       !.amount = amount, !.currency = currency,
                                       !.cardMem = card]
                 ELSE IdleProc]
  /\ calls = 0
  /\ hist = <<>>
  /\ ret = IdleProc

NextConvert ==
  \/ \E p \in Procs, active \in BOOLEAN : AuthorizeCheck(p, active)
  \/ \E p \in Procs, ok \in BOOLEAN : AuthorizeFraud(p, ok)
  \/ \E p \in Procs : AuthorizeCreate(p)
  \/ \E p \in Procs : AuthorizeDeadline(p)
  \/ \E p \in Procs, accepted \in BOOLEAN : AuthorizePush(p, accepted)
  \/ \E p \in Procs : AuthorizeSent(p)
  \/ \E p \in Procs : AuthorizeFault(p)
  \/ \E p \in Procs : AuthorizeCacheFault(p)

SpecConvert == InitConvert /\ [][NextConvert]_vars

\* charges of one unit were approved up to one unit below the card's daily
\* limit; then two more requests of one unit passed the limit checks, the
\* first still waiting for its result when the second was checked, and
\* both pushes were accepted
InitPending ==
  /\ now = 0
  /\ today = 0
  /\ entries = <<PushSent(1), PushSent(2)>>
                \o [i \in 1..(CardDailyLimit - 1) |-> ApprovedEntry(i + 2)]
  /\ card = [total_spent_today |-> CardDailyLimit - 1,
             total_spent_month |-> CardDailyLimit - 1, last_used |-> Stamped]
  /\ user = [NoUser EXCEPT !.total_daily_spent = CardDailyLimit - 1]
  /\ proc = [p \in Procs |-> IdleProc]
  /\ calls = 0
  /\ hist = <<NoHist, NoHist>> \o [i \in 1..(CardDailyLimit - 1) |-> OnceApproved]
  /\ ret = IdleProc

SpecPending == InitPending /\ [][NextPair]_vars

\* handleSTKCallback on every result code and description: a callback
\* has just resolved the only entry, which was created by authorize (push
\* accepted) or by POST /api/transactions
InitMap ==
  /\ now = 0
  /\ today = 0
  /\ entries \in {<<PushSent(1)>>, <<[NewEntry(1) EXCEPT !.created_at = 0]>>}
  /\ card = NoCard
  /\ user = NoUser
  /\ \E code \in KnownCodes \cup UnknownCodes, desc \in Descriptions,
        receipt \in Receipts :
       /\ proc = [p \in Procs |->
                    IF p = 1
                    THEN Resolved([IdleProc EXCEPT !.op = "callback",
                                                   !.desc = desc],
                                  1, code, receipt)
                    ELSE IdleProc]
       /\ hist = <<[NoHist EXCEPT !.approvals =
                      IF code = SuccessCode THEN 1 ELSE 0]>>
  /\ calls = 1
  /\ ret = IdleProc

NextMap ==
  \/ \E p \in Procs : HandleLoadCard(p)
  \/ \E p \in Procs : HandleLoadUser(p)
  \/ \E p \in Procs : HandleSaveTxn(p)
  \/ \E p \in Procs : HandleSaveCard(p)
  \/ \E p \in Procs : HandleSaveUser(p)

SpecMap == InitMap /\ [][NextMap]_vars

\* two accepted pushes wait for their result and the store may fail the
\* handler: a call of the store inside handleSTKCallback may reject, and
\* the card may have been deleted since the pushes were sent
InitFault ==
  /\ now = 0
  /\ today = 0
  /\ entries = <<PushSent(1), PushSent(2)>>
  /\ card \in {NoCard, DeletedCard}
  /\ user = NoUser
  /\ proc = [p \in Procs |-> IdleProc]
  /\ calls = 0
  /\ hist = <<NoHist, NoHist>>
  /\ ret = IdleProc

NextFault ==
  \/ NextPair
  \/ \E p \in Procs : HandleFault(p)

SpecFault == InitFault /\ [][NextFault]_vars

\* two accepted pushes wait for their result; the provider posts to the
\* webhook receiver, callers invoke handleSTKCallback and the status query
NextHook ==
  \/ NextPair
  \/ \E p \in Procs, mreq \in 0..2, id \in 0..2, code \in {SuccessCode, 1} :
       WebhookMpesa(p, mreq, id, code)

SpecHook == InitPair /\ [][NextHook]_vars

TypeOK ==
  /\ now \in 0..MaxTime
  /\ today \in 0..MaxDay
  /\ Len(hist) = Len(entries)
  /\ calls \in 0..MaxCalls

Quiescent == \A p \in Procs : ~Running(p)

\* the positions of an invocation inside handleSTKCallback
HandlePcs == {"h_card", "h_user", "h_save_txn", "h_save_card", "h_save_user"}

\* ret shows a return of handleSTKCallback that had resolved an entry
Reconciled == ret.pc = "done" /\ ret.e # NoEntry

\* ------------------------------------------------------------ properties

\* C1: a handleSTKCallback invocation that runs on its own after an earlier
\* reconcile finalized the entry (it loaded the entry as approved or declined)
\* changes neither the stored entry nor any spend counter, whatever result
\* code it carries.
C1_IdempotentReconcile ==
  [][\A p \in Procs :
       (proc[p].pc \in HandlePcs /\ proc[p].solo
        /\ proc[p].loadedStatus \in {"approved", "declined"})
       => (entries' = entries /\ card' = card /\ user' = user)]_vars

C3_DuplicateApprovalOnce ==
  (Len(entries) = 1 /\ hist[1].approvals >= 2 /\ hist[1].overlapped)
  => /\ card.total_spent_today <= entries[1].amount_kes
     /\ card.total_spent_month <= entries[1].amount_kes
     /\ user.total_daily_spent <= entries[1].amount_kes

\* C4: of the callbacks and status queries contending for an entry at most
\* one moves it into a terminal status.
C4_SingleWinner ==
  \A i \in 1..Len(entries) : hist[i].settled <= 1

\* C5: once an entry's status is terminal no step changes the status, and no
\* callback or status query moves the entry into a terminal status again.
C5_TerminalAbsorbing ==
  [][\A i \in 1..Len(entries) :
       entries[i].status \in Terminal
       => (entries'[i].status = entries[i].status
           /\ hist'[i].settled = hist[i].settled)]_vars

\* C6: a transition attempted on a terminal entry leaves the whole stored
\* entry (status, timestamps, decision facts, metadata) unchanged, and a
\* reconcile that found the entry terminal reports the recorded status.
C6_TerminalTransitionNoop ==
  [][/\ \A i \in 1..Len(entries) :
          entries[i].status \in Terminal => entries'[i] = entries[i]
     /\ (ret'.pc = "done" /\ ret'.result.kind = "reconciled"
         /\ ret'.loadedStatus \in Terminal)
        => ret'.result.status = ret'.loadedStatus]_vars

C8_NoLostUpdate ==
  (Quiescent /\ Len(entries) = 2
   /\ hist[1].approvals = 1 /\ hist[2].approvals = 1)
  => LET sum == entries[1].amount_kes + entries[2].amount_kes
     IN /\ card.total_spent_today = sum
        /\ card.total_spent_month = sum
        /\ user.total_daily_spent = sum

\* C9: the card's counters change only in the step of handleSTKCallback that
\* saves the card after an approved result; they never decrease; and no
\* entry's amount is added a second time.
C9_CountersOnlyOnApproval ==
  [][/\ (card'.total_spent_today # card.total_spent_today
         \/ card'.total_spent_month # card.total_spent_month)
        => \E p \in Procs :
             /\ proc[p].pc = "h_save_card" /\ proc'[p].pc = "h_save_user"
             /\ MapMpesaResultToCardResponse(proc[p].code, "").approved
     /\ card'.total_spent_today >= card.total_spent_today
     /\ card'.total_spent_month >= card.total_spent_month
     /\ \A i \in 1..Len(entries) : hist'[i].applied <= 1]_vars

\* C10 as stated: a status query that loaded ANY non-terminal entry past its
\* deadline saves it as expired and reports expired without calling the gateway.
C10_ExpiryPrecedenceAnyNonTerminal ==
  (ret.pc = "done" /\ ret.op = "poll" /\ ret.ref # NoEntry
   /\ ret.pollStatus \in NonTerminal /\ ret.loadedPast)
  => /\ ret.result.status = "expired"
     /\ ~ret.gatewayCalled
     /\ entries[ret.ref].status = "expired"

\* C10 amended: a status query that loaded an entry in stk_push_sent or
\* awaiting_user_response past its deadline saves it as expired and reports
\* expired without calling the gateway.
C10_ExpiryPrecedence ==
  (ret.pc = "done" /\ ret.op = "poll" /\ ret.ref # NoEntry
   /\ ret.pollStatus \in PollPending /\ ret.loadedPast)
  => /\ ret.result.status = "expired"
     /\ ~ret.gatewayCalled
     /\ ret.e = NoEntry
     /\ entries[ret.ref].status = "expired"

\* C10 witness: a status query found a stk_push_sent entry past its deadline
\* and has just returned expired.
C10_Witness ==
  /\ ret.pc = "done" /\ ret.op = "poll"
  /\ ret.pollStatus = "stk_push_sent" /\ ret.loadedPast
  /\ ret.result.status = "expired"
  /\ entries[ret.ref].status = "expired"

\* C11: a handleSTKCallback invocation that loaded the entry as expired
\* changes neither the stored entry nor any spend counter in any of its
\* steps, whatever result code it carries.
C11_LateCallbackNoop ==
  [][\A p \in Procs :
       (proc[p].pc \in HandlePcs /\ proc[p].loadedStatus = "expired"
        /\ proc'[p].pc # proc[p].pc)
       => (entries' = entries /\ card' = card /\ user' = user)]_vars

\* C12: every entry that findPendingTransactions selects (stk_push_sent or
\* awaiting_user_response, deadline passed) is eventually expired, whether
\* or not a callback or a status query arrives for it.
C12_SweepLiveness ==
  \A i \in 1..MaxEntries :
    [](i \in FindPendingTransactions
       => <>(i <= Len(entries) /\ entries[i].status = "expired"))

\* C13 as stated: an authorize that returns the decline of the instrument
\* check ("14"), of the cardholder-active check ("15") or of a limit check
\* ("51") has created no entry and changed no stored entry, no card counter
\* and not the cardholder's daily counter, and the reference it returns
\* names no entry.
C13_DeclineBeforeEntryNoMutation ==
  [][(ret'.pc = "done" /\ ret'.op = "authorize" /\ ret' # ret
      /\ ret'.result.code \in {"14", "15", "51"})
     => /\ entries' = entries
        /\ card' = card
        /\ user'.total_daily_spent = user.total_daily_spent
        /\ ret'.ref = NoEntry
        /\ ret'.result.ref \notin 1..Len(entries')]_vars

\* C13 amended: the same, except that a limit check that observes a reset-at
\* from another calendar day has reset the cardholder's daily counter to
\* zero; no counter is ever increased.
C13_DeclineBeforeEntry ==
  [][(ret'.pc = "done" /\ ret'.op = "authorize" /\ ret' # ret
      /\ ret'.result.code \in {"14", "15", "51"})
     => /\ entries' = entries
        /\ card' = card
        /\ \/ user'.total_daily_spent = user.total_daily_spent
           \/ /\ ret'.result.code = "51"
              /\ user.reset_daily_spent_at # today
              /\ user'.total_daily_spent = 0
        /\ ret'.ref = NoEntry
        /\ ret'.result.ref \notin 1..Len(entries')]_vars

\* C13 witness: a limit decline has just been returned while an approved
\* entry exists and the card's counters are not zero.
C13_Witness ==
  /\ ret.pc = "done" /\ ret.op = "authorize" /\ ret.result.code = "51"
  /\ Len(entries) = 1 /\ entries[1].status = "approved"
  /\ card.total_spent_today > 0

\* C14: the limit checks let a request pass exactly when the amount is not
\* above the single-transaction limit and spent + amount is not above the
\* cardholder's daily, the card's daily and the card's monthly limit; a
\* total equal to a limit passes, a total above any limit is declined "51".
C14_LimitMonotonicity ==
  LET Within(a) == /\ a <= SingleLimit
                   /\ user.total_daily_spent + a <= UserDailyLimit
                   /\ card.total_spent_today + a <= CardDailyLimit
                   /\ card.total_spent_month + a <= CardMonthlyLimit
  IN /\ \A p \in Procs : proc[p].pc = "a_create" => Within(proc[p].amount)
     /\ (ret.pc = "done" /\ ret.result.code = "51") => ~Within(ret.amount)

\* C14 witness: a request passed both checks with the cardholder's and the
\* card's daily total exactly at the limit.
C14_Witness ==
  \E p \in Procs :
    /\ proc[p].pc = "a_create"
    /\ user.total_daily_spent + proc[p].amount = UserDailyLimit
    /\ card.total_spent_today + proc[p].amount = CardDailyLimit

\* C15: an authorize whose push the gateway accepted returns the pending
\* outcome with the entry's reference, the entry being in stk_push_sent and
\* holding the checkout request id; and a callback that carries a checkout
\* request id issued for an entry resolves that entry instead of returning
\* not-found.
C15_AcceptedPushResolvable ==
  /\ (ret.pc = "done" /\ ret.op = "authorize" /\ ret.result.kind = "pending")
     => /\ ret.result.ref = ret.ref
        /\ entries[ret.ref].status = "stk_push_sent"
        /\ \/ entries[ret.ref].mpesa_checkout_request_id = ret.ref
           \/ entries[ret.ref].metadata.mpesa_checkout_request_id = ret.ref
  /\ (ret.pc = "done" /\ ret.op = "callback" /\ ret.id \in 1..Len(entries)
      /\ entries[ret.id].metadata.mpesa_checkout_request_id = ret.id)
     => (ret.result.kind # "not_found" /\ ret.e = ret.id)

\* C16: an authorize whose push the gateway did not accept returns the
\* decline "96" with the reference of the entry it created, that entry is
\* saved as failed with the gateway's error, and an entry failed this way
\* is never in stk_push_sent, before or after.
C16_PushRejectedFails ==
  /\ (ret.pc = "done" /\ ret.op = "authorize"
      /\ ret.result.reason = "Payment service unavailable")
     => /\ ret.result.kind = "decline"
        /\ ret.result.code = "96"
        /\ ret.ref \in 1..Len(entries)
        /\ ret.result.ref = ret.ref
        /\ entries[ret.ref].status = "failed"
        /\ entries[ret.ref].metadata.error # "none"
  /\ \A i \in 1..Len(entries) :
       entries[i].metadata.error # "none"
       => /\ entries[i].status # "stk_push_sent"
          /\ entries[i].stk_push_sent_at = NoTime

\* C16 witness: the gateway refused the push and authorize has just
\* returned "96" for the entry it had created.
C16_Witness ==
  /\ ret.pc = "done" /\ ret.op = "authorize" /\ ret.gatewayCalled
  /\ ret.result.code = "96" /\ ret.result.ref = ret.ref
  /\ ret.ref \in 1..Len(entries)
  /\ entries[ret.ref].status = "failed"

\* C17: an authorize that hit a fault after it had created its entry
\* returns a decline whose reference is the reference of that entry.
C17_FaultKeepsReference ==
  (ret.pc = "done" /\ ret.op = "authorize" /\ ret.ref # NoEntry
   /\ ret.result.reason = "System error")
  => (ret.result.kind = "decline" /\ ret.result.ref = ret.ref)

\* C18: every stored entry in pending_authorization, stk_push_sent or
\* awaiting_user_response has its timeout_at set.
C18_DeadlineOnNonTerminal ==
  \A i \in 1..Len(entries) :
    entries[i].status \in NonTerminal => entries[i].timeout_at # NoTime

\* C19: a status query that ran alone and obtained a result other than the
\* pending sentinel returns with the entry it was asked about reconciled as
\* a callback with that result code reconciles it: approved for the success
\* code, declined otherwise.
C19_PollSameAsCallback ==
  (ret.pc = "done" /\ ret.op = "poll" /\ ret.gatewayCalled /\ ret.solo
   /\ ret.code \notin {NoCode, PendingSentinel})
  => /\ ret.e = ret.ref
     /\ entries[ret.ref].status =
          IF MapMpesaResultToCardResponse(ret.code, "").approved
          THEN "approved" ELSE "declined"

\* C20: the step of a status query in which the gateway answers with the
\* pending sentinel, or the query fails, returns the status the query had
\* loaded without entering handleSTKCallback and leaves every stored entry
\* and both documents' counters as they were.
C20_SentinelLeavesEntry ==
  [][\A p \in Procs :
       (/\ proc[p].pc = "q_query"
        /\ proc'[p].pc # "q_query"
        /\ (IF proc'[p].pc = "idle" THEN ret'.code ELSE proc'[p].code)
             \in {NoCode, PendingSentinel})
       => /\ proc'[p].pc = "idle"
          /\ ret'.pc = "done"
          /\ ret'.e = NoEntry
          /\ ret'.result.status = proc[p].pollStatus
          /\ entries' = entries
          /\ card' = card
          /\ user' = user]_vars

\* C20 witness: a status query on an entry in stk_push_sent got the pending
\* sentinel and has just returned; the entry is still in stk_push_sent.
C20_Witness ==
  /\ ret.pc = "done" /\ ret.op = "poll" /\ ret.gatewayCalled
  /\ ret.code = PendingSentinel /\ ret.e = NoEntry
  /\ ret.result.status = "stk_push_sent"
  /\ entries[ret.ref].status = "stk_push_sent"

\* C21: a status query on an entry whose status is terminal returns at once
\* with the recorded status, without calling the gateway, without entering
\* handleSTKCallback and without changing an entry or a counter; a query for
\* a reference no entry has returns the not-found outcome and changes
\* nothing.
C21_TerminalQueryReadOnly ==
  [][/\ \A p \in Procs :
          (proc[p].pc = "idle" /\ proc'[p].op = "poll")
          => proc'[p].pollStatus \notin Terminal
     /\ (calls' = calls + 1 /\ ret'.pc = "done" /\ ret'.op = "poll")
        => /\ entries' = entries /\ card' = card /\ user' = user
           /\ hist' = hist
           /\ ~ret'.gatewayCalled
           /\ ret'.e = NoEntry
           /\ IF ret'.ref = NoEntry
              THEN Len(entries) < MaxEntries /\ ret'.result = NotFound
              ELSE ret'.result =
                     StatusOutcome(entries[ret'.ref].status, ret'.ref)]_vars

\* C21 witness: a status query found the entry approved, with the amount on
\* the card's counter, and has just returned approved without a gateway call.
C21_Witness ==
  /\ ret.pc = "done" /\ ret.op = "poll" /\ ret.ref # NoEntry
  /\ ret.pollStatus = "approved" /\ ret.result.status = "approved"
  /\ ~ret.gatewayCalled
  /\ entries[ret.ref].status = "approved"
  /\ card.total_spent_today = entries[ret.ref].amount_kes

\* C22: a handleSTKCallback invocation that loaded a non-terminal entry and
\* carries a result code other than the success code changes no card and no
\* cardholder document in any of its steps (counters and last_used stay as
\* they are); the step in which its updateStatus is saved leaves the entry
\* declined, stamped as completed, with the result code and the mapped
\* decline code and reason in its metadata, and the handler returns (to a
\* webhook caller: that decline).
C22_DeclineEffect ==
  [][\A p \in Procs :
       (/\ proc[p].pc \in HandlePcs
        /\ proc[p].loadedStatus \in NonTerminal
        /\ proc[p].code # SuccessCode
        /\ proc'[p].pc # proc[p].pc)
       => /\ card' = card
          /\ user' = user
          /\ IF proc[p].pc = "h_save_txn"
             THEN LET e == entries'[proc[p].e]
                      m == MapMpesaResultToCardResponse(proc[p].code, proc[p].desc)
                  IN /\ e.status = "declined"
                     /\ e.completed_at = Stamped
                     /\ e.metadata.mpesa_result_code = proc[p].code
                     /\ e.metadata.decline_code = m.declineCode
                     /\ e.metadata.decline_reason = m.declineReason
                     /\ m.declineCode # "none" /\ m.declineReason # "none"
                     /\ e.metadata.authorization_code = "none"
                     /\ proc'[p].pc = "idle"
                     /\ ret'.pc = "done"
                     /\ ret'.op = "callback"
                        => /\ ret'.result.status = "declined"
                           /\ ret'.result.code = m.declineCode
             ELSE entries' = entries]_vars

\* C22 witness: a callback with a result code the mapping has no case for
\* found the entry in stk_push_sent and has just returned; the entry is
\* declined with "96" and the counters are zero.
C22_Witness ==
  /\ Reconciled /\ ret.op = "callback" /\ ret.code = 2003
  /\ ret.loadedStatus = "stk_push_sent"
  /\ entries[ret.e].status = "declined"
  /\ entries[ret.e].metadata.decline_code = "96"
  /\ card = NoCard /\ user = NoUser

C24_MappingTotal ==
  /\ \A p \in Procs :
       proc[p].pc \in {"h_card", "h_user"}
       => LET m == MapMpesaResultToCardResponse(proc[p].code, proc[p].desc)
          IN /\ m.approved \in BOOLEAN
             /\ m.approved <=> proc[p].code = SuccessCode
             /\ m.approved => m.authorizationCode # "none"
             /\ ~m.approved => m.declineCode
                                 \in {"51", "05", "13", "12", "14", "15", "96"}
             /\ proc[p].code \notin KnownCodes
                => /\ m.declineCode = "96"
                   /\ m.declineReason = IF proc[p].desc = ""
                                         THEN "System malfunction"
                                         ELSE proc[p].desc
  /\ \A p \in Procs :
       proc[p].pc = "h_save_txn"
       => /\ proc[p].txn.status = "approved" <=> proc[p].code = SuccessCode
          /\ proc[p].txn.status \in {"approved", "declined"}
          /\ proc[p].code \notin KnownCodes
             => proc[p].txn.metadata.decline_code = "96"
  /\ (Reconciled /\ ret.op = "callback")
     => /\ ret.result.status = "approved" <=> ret.code = SuccessCode
        /\ ret.code \notin KnownCodes
           => /\ ret.result.status = "declined"
              /\ ret.result.code = "96"
              /\ ret.result.reason = IF ret.desc = "" THEN "System malfunction"
                                     ELSE ret.desc

\* C24 witness: a callback without result description and with a code the
\* table does not have has just returned the decline "96", "System
\* malfunction".
C24_Witness ==
  /\ Reconciled /\ ret.op = "callback"
  /\ ret.code = 9999 /\ ret.desc = ""
  /\ ret.result.code = "96"
  /\ ret.result.reason = "System malfunction"
  /\ entries[ret.e].status = "declined"

\* C25: the cardholder's daily counter is reset lazily and once a day: a
\* limit check that finds reset_daily_spent_at on another day sets the
\* counter to zero and reset_daily_spent_at to the current day, a limit
\* check that finds it on the current day changes neither, nothing else
\* moves reset_daily_spent_at, and once the reset of the day is done the
\* counter holds what was approved since: the step that books an approved
\* amount leaves the stored counter exactly that amount higher.
C25_DailyResetOnce ==
  [][/\ \A p \in Procs :
          (/\ proc[p].pc = "a_user" /\ proc'[p].pc # "a_user"
           /\ ~(ret'.pc = "done" /\ ret'.result.code = "15"))
          => IF user.reset_daily_spent_at # today
             THEN user' = [total_daily_spent |-> 0,
                           reset_daily_spent_at |-> today]
             ELSE user' = user
     /\ user'.reset_daily_spent_at # user.reset_daily_spent_at
        => \E p \in Procs : proc[p].pc = "a_user" /\ proc'[p].pc # "a_user"
     /\ \A p \in Procs :
          (proc[p].pc = "h_save_user" /\ proc'[p].pc = "idle"
           /\ user.reset_daily_spent_at = today)
          => user'.total_daily_spent
               = user.total_daily_spent + proc[p].txn.amount_kes]_vars

\* C26: authorize returns the pending outcome or a decline with one of the
\* codes "14", "15", "51", "96": "14" from the instrument validation, which
\* returns before anything is loaded; "15" or "51" from the step that loads
\* the cardholder and evaluates the limits, "15" without a limit evaluation;
\* and "96" from every return after that, be it the gateway's rejection of
\* the push, which leaves the entry failed, or a fault.
C26_DeclineVocabulary ==
  [][/\ (ret'.pc = "done" /\ ret'.op = "authorize")
        => /\ ret'.result.kind \in {"decline", "pending"}
           /\ ret'.result.kind = "pending" => ret'.result.code = "none"
           /\ ret'.result.kind = "decline"
              => ret'.result.code \in {"14", "15", "51", "96"}
     /\ (ret'.pc = "done" /\ ret'.op = "authorize"
         /\ \A q \in Procs : proc'[q].pc = proc[q].pc)
        => (ret'.result.kind = "decline" /\ ret'.result.code = "14")
     /\ \A p \in Procs :
          (proc[p].pc = "a_user" /\ proc'[p].pc = "idle")
          => /\ ret'.result.kind = "decline"
             /\ ret'.result.code \in {"15", "51"}
             /\ ret'.result.code = "15" => user' = user
     /\ \A p \in Procs :
          (proc[p].pc \in {"a_insert", "a_deadline", "a_push", "a_sent"}
           /\ proc'[p].pc = "idle")
          => /\ ret'.result.kind = "decline" => ret'.result.code = "96"
             /\ (proc[p].pc = "a_sent"
                 /\ entries'[proc[p].ref].status = "failed")
                => (ret'.result.kind = "decline" /\ ret'.result.code = "96")]_vars

\* C26 witness: authorize hit a fault after it had created its entry and
\* before it called the gateway, and has just returned the decline "96".
C26_Witness ==
  /\ ret.pc = "done" /\ ret.op = "authorize"
  /\ ret.ref # NoEntry /\ ~ret.gatewayCalled
  /\ ret.result.kind = "decline" /\ ret.result.code = "96"
  /\ ret.result.reason = "System error"

\* C27: whatever the recent entries of the card are, the fraud check of a
\* request that passed the limit checks only yields indicators: the request
\* goes on to create its entry, the ledger and the counters are untouched
\* by the check, the entry is created in pending_authorization with those
\* indicators in its metadata, and what authorize returns afterwards is the
\* pending outcome or "96", never a decline for the indicators.
C27_FraudNeverBlocks ==
  [][/\ \A p \in Procs :
          (proc[p].pc = "a_create" /\ proc'[p].pc # "a_create")
          => /\ proc'[p].pc = "a_insert"
             /\ ret' = IdleProc
             /\ entries' = entries /\ card' = card /\ user' = user
             /\ proc'[p].indicators
                  \in {{}, CheckFraudPatterns(RecentTransactions,
                                              proc[p].amountKES, now)}
     /\ \A p \in Procs :
          (proc[p].pc = "a_insert" /\ proc'[p].pc = "a_deadline")
          => /\ Len(entries') = Len(entries) + 1
             /\ entries'[Len(entries')].status = "pending_authorization"
             /\ entries'[Len(entries')].amount_kes = proc[p].amountKES
             /\ entries'[Len(entries')].metadata.fraud_indicators
                  = proc[p].indicators
     /\ \A p \in Procs :
          (proc[p].pc \in {"a_create", "a_insert", "a_deadline", "a_push",
                            "a_sent"}
           /\ proc'[p].pc = "idle")
          => /\ proc[p].pc # "a_create"
             /\ ret'.result.kind \in {"pending", "decline"}
             /\ ret'.result.kind = "decline" => ret'.result.code = "96"
             /\ (proc[p].pc = "a_sent"
                 /\ entries'[proc[p].ref].status = "stk_push_sent"
                 /\ ret'.result.reason # "System error")
                => ret'.result.kind = "pending"]_vars

\* C27 witness: the newest entry of the card is younger than 30 seconds and
\* three recent entries are declined or failed; the request got both
\* indicators, created its entry with them, the push was accepted and
\* authorize has just returned the pending outcome.
C27_Witness ==
  /\ ret.pc = "done" /\ ret.op = "authorize" /\ ret.result.kind = "pending"
  /\ ret.indicators = {"Rapid transaction detected", "Multiple failed attempts"}
  /\ ret.ref = MaxHistory + 1
  /\ entries[ret.ref].status = "stk_push_sent"
  /\ entries[ret.ref].metadata.fraud_indicators = ret.indicators

\* C28: a request that got past the conversion and the limit checks has a
\* settlement amount that is a number: the charge's own amount when the
\* charge is in KES or in a currency the rate table does not have, amount
\* times rate otherwise; and every entry it creates holds that amount.
C28_ConversionDefined ==
  /\ \A p \in Procs :
       (proc[p].op = "authorize"
        /\ proc[p].pc \in {"a_create", "a_insert", "a_deadline", "a_push",
                         "a_sent"})
       => /\ proc[p].amountKES >= 0
          /\ proc[p].amountKES =
               IF proc[p].currency \in DOMAIN Rates
               THEN proc[p].amount * Rates[proc[p].currency]
               ELSE proc[p].amount
  /\ \A i \in 1..Len(entries) : entries[i].amount_kes >= 0

\* C29: as long as no entry got more than one approving result, the card's
\* daily counter is at most its daily limit and its monthly counter at most
\* its monthly limit.
C29_LimitsInvariant ==
  (\A i \in 1..Len(entries) : hist[i].approvals <= 1)
  => /\ card.total_spent_today <= CardDailyLimit
     /\ card.total_spent_month <= CardMonthlyLimit

\* C30: whenever no invocation is inside handleSTKCallback, the card's daily
\* counter (zero at the start) is the sum of amount_kes over the entries
\* whose status is approved.
C30_CounterMatchesLedger ==
  (\A p \in Procs : proc[p].pc \notin HandlePcs)
  => card.total_spent_today
       = SumAmounts(SelectSeq(entries, LAMBDA d : d.status = "approved"))

\* C31: an entry whose amount was added to the card's counters is in status
\* approved; in particular the step in which a status query saves expired
\* does not change an entry that a callback has approved since the query
\* loaded it.
C31_SpentOnlyIfApproved ==
  [][/\ \A i \in 1..Len(entries') :
          hist'[i].applied >= 1 => entries'[i].status = "approved"
     /\ \A p \in Procs :
          (proc[p].pc = "q_expire" /\ proc'[p].pc = "idle"
           /\ entries[proc[p].ref].status = "approved")
          => entries'[proc[p].ref].status = "approved"]_vars

\* C32: when handleSTKCallback returns its failure outcome for an entry it
\* had resolved (the card missing, or a fault of a store call), the entry's
\* status and the counters of the card and the cardholder are as the
\* invocation found them, provided it ran alone; and no failure return
\* leaves the entry approved without its amount on the card's and the
\* cardholder's counter.
C32_ReconcileAllOrNothing ==
  [][(ret'.pc = "done" /\ ret'.op = "callback" /\ ret'.e # NoEntry
      /\ ret'.result.kind = "failure")
     => /\ ret'.solo
           => /\ entries'[ret'.e].status = ret'.loadedStatus
              /\ card'.total_spent_today = ret'.pre.today
              /\ card'.total_spent_month = ret'.pre.month
              /\ user'.total_daily_spent = ret'.pre.daily
        /\ (entries'[ret'.e].status = "approved"
            /\ ret'.loadedStatus # "approved")
           => /\ hist'[ret'.e].applied >= 1
              /\ user'.total_daily_spent >= entries'[ret'.e].amount_kes]_vars

\* C33: both completion paths go through handleSTKCallback: every step
\* that changes an entry's status to approved or declined is the step of
\* handleSTKCallback that saves its updateStatus; a post to the webhook
\* receiver changes no entry, no card and no cardholder document itself;
\* and a post that carries the checkout request id of an entry waiting for
\* its result is handed to handleSTKCallback instead of being answered
\* not-found by the receiver.
C33_CompletionFunnel ==
  [][/\ \A i \in 1..Len(entries) :
          (entries'[i].status # entries[i].status
           /\ entries'[i].status \in {"approved", "declined"})
          => \E p \in Procs : /\ proc[p].pc = "h_save_txn"
                              /\ proc[p].e = i
                              /\ proc'[p].pc # "h_save_txn"
     /\ (ret'.pc = "done" /\ ret'.op = "webhook")
        => (entries' = entries /\ card' = card /\ user' = user)
     /\ ~(/\ ret'.pc = "done" /\ ret'.op = "webhook"
          /\ ret'.result = NotFound
          /\ \E i \in 1..Len(entries) :
               /\ entries[i].status \in PollPending
               /\ entries[i].metadata.mpesa_checkout_request_id = ret'.id)]_vars

\* C34: a callback that carries the checkout request id the gateway issued
\* for an accepted push resolves the entry of that push, be it delivered
\* while authorize is still saving the stk_push_sent transition and the id,
\* or after the save; it is never answered not-found.
C34_NoResultLostToRace ==
  [][(/\ ret'.pc = "done" /\ ret'.op = "callback" /\ ret'.id # NoId
      /\ \/ \E q \in Procs : /\ proc[q].pc = "a_sent"
                             /\ proc[q].txn.status = "stk_push_sent"
                             /\ proc[q].ref = ret'.id
         \/ /\ ret'.id \in 1..Len(entries)
            /\ entries[ret'.id].metadata.mpesa_checkout_request_id = ret'.id)
     => (ret'.result # NotFound /\ ret'.e = ret'.id)]_vars

\* C35: whenever a status query returns a status for an entry, that status
\* is the status stored for the entry in the state in which it returns,
\* also when the query handed a result to handleSTKCallback.
C35_QueryReportsStored ==
  (ret.pc = "done" /\ ret.op = "poll" /\ ret.result.kind = "status")
  => ret.result.status = entries[ret.ref].status

\* C36: an entry's status changes only along the specified edges:
\* pending_authorization to stk_push_sent or failed; stk_push_sent to
\* awaiting_user_response, approved, declined or expired;
\* awaiting_user_response to approved, declined or expired; and no entry is
\* ever cancelled.
C36_SpecifiedEdges ==
  [][LET Edges ==
           ({"pending_authorization"} \X {"stk_push_sent", "failed"})
           \cup ({"stk_push_sent"}
                 \X {"awaiting_user_response", "approved", "declined",
                     "expired"})
           \cup ({"awaiting_user_response"}
                 \X {"approved", "declined", "expired"})
     IN /\ \A i \in 1..Len(entries) :
             entries'[i].status # entries[i].status
             => <<entries[i].status, entries'[i].status>> \in Edges
        /\ \A i \in 1..Len(entries') : entries'[i].status # "cancelled"]_vars

\* C37: a stored entry carries a decline code or a decline reason only
\* while its status is declined, failed or expired, and an approved entry
\* carries an authorization code and no decline code, whatever results were
\* delivered for it.
C37_DeclineFactsOnlyOnDecline ==
  \A i \in 1..Len(entries) :
    LET m == entries[i].metadata
    IN /\ (m.decline_code # "none" \/ m.decline_reason # "none")
          => entries[i].status \in {"declined", "failed", "expired"}
       /\ entries[i].status = "approved"
          => (m.authorization_code # "none" /\ m.decline_code = "none")

\* C38: the result code the status query takes for "still pending" (1032)
\* is no terminal code: no step of a handleSTKCallback invocation that
\* carries it moves the entry it resolved from a non-terminal status into
\* declined or another terminal status.
C38_SentinelNotTerminal ==
  [][\A p \in Procs :
       (/\ proc[p].pc \in HandlePcs
        /\ proc[p].code = PendingSentinel
        /\ proc'[p].pc # proc[p].pc
        /\ entries[proc[p].e].status \in NonTerminal)
       => entries'[proc[p].e].status \in NonTerminal]_vars

\* C39: every stored entry whose status is approved, declined, failed or
\* expired has completed_at set, and every stored entry that is in
\* stk_push_sent or holds the checkout request id of its push has
\* stk_push_sent_at set.
C39_TimestampsStamped ==
  \A i \in 1..Len(entries) :
    /\ entries[i].status \in {"approved", "declined", "failed", "expired"}
       => entries[i].completed_at # NoTime
    /\ (\/ entries[i].status = "stk_push_sent"
        \/ entries[i].metadata.mpesa_checkout_request_id # NoId)
       => entries[i].stk_push_sent_at # NoTime

====
